---- MODULE Spec2Model ----
(***************************************************************************)
(* Model of the fast-link URL shortener (src/app/main.py): the "urls"      *)
(* table, the three request handlers create_url, redirect_to_url and       *)
(* get_url_info, each running in its own SQLAlchemy session, and the       *)
(* administrative deactivation of a mapping that the specification names   *)
(* as the only other writer of the table.                                  *)
(*                                                                         *)
(* A handler that calls db.commit() after having read or prepared          *)
(* something is two steps: the part up to the commit, and the commit (the  *)
(* flush of the pending INSERT/UPDATE and the COMMIT, which the database   *)
(* serialises per row).  Calls of other requests may run between the two.  *)
(***************************************************************************)
EXTENDS Integers, Sequences, FiniteSets

\* Number of requests served in one behaviour.
MaxCalls == 4

\* Values secrets.token_urlsafe(8) can return (two, so that collisions happen).
Keys == {"k1", "k2"}

\* Values of the target_url request parameter.
Urls == {"u1", "u2"}

VARIABLES
    rows,     \* the urls table: rows[i] is the row with id = i
    calls     \* the requests so far, in order of arrival

vars == <<rows, calls>>

----------------------------------------------------------------------------
\* The table and the ORM

\* get_db: a session is opened before the handler runs and closed in the
\* finally clause when it ends.
SessionOpen == "open"
SessionClosed == "closed"

\* DBURL(key=key, target_url=target_url) with the column defaults
\* is_active = True and clicks = 0; id is the position in the table.
NewRowSwapped(id, key, target_url) ==
    [id |-> id, key |-> key, target_url |-> key,
     is_active |-> TRUE, clicks |-> 0]

NewRowInactive(id, key, target_url) ==
    [id |-> id, key |-> key, target_url |-> target_url,
     is_active |-> FALSE, clicks |-> 0]

NewRow(id, key, target_url) ==
    [id |-> id, key |-> key, target_url |-> target_url,
     is_active |-> TRUE, clicks |-> 0]

\* What .first() returns when no row matches (None).
NoRow == [id |-> 0, key |-> "", target_url |-> "",
          is_active |-> FALSE, clicks |-> 0]

\* unique=True on the key column: an INSERT of a key some row has fails.
KeyTakenNoIndex(key) == FALSE

KeyTaken(key) == \E i \in DOMAIN rows : rows[i].key = key

\* .first() of a query: the matching row with the lowest id, or None.
First(ids) ==
    IF ids = {} THEN NoRow
    ELSE rows[CHOOSE i \in ids : \A j \in ids : i <= j]

\* db.query(DBURL).filter(DBURL.key == url_key, DBURL.is_active).first()
QueryActiveAnyKey(url_key) ==
    First({i \in DOMAIN rows : rows[i].is_active})

QueryActiveNoFlag(url_key) ==
    First({i \in DOMAIN rows : rows[i].key = url_key})

QueryActive(url_key) ==
    First({i \in DOMAIN rows : rows[i].key = url_key /\ rows[i].is_active})

\* db.query(DBURL).filter(DBURL.key == url_key).first()
QueryByKeyActiveOnly(url_key) ==
    First({i \in DOMAIN rows : rows[i].key = url_key /\ rows[i].is_active})

QueryByKey(url_key) ==
    First({i \in DOMAIN rows : rows[i].key = url_key})

----------------------------------------------------------------------------
\* Responses

NoResult == [status |-> 0, detail |-> "", short_url |-> <<>>,
             target_url |-> "", key |-> "", clicks |-> 0,
             is_active |-> FALSE]

\* f"http://<your-service-ip>/{key}"
ShortUrl(key) == <<"http://<your-service-ip>/", key>>

\* return {"short_url": ..., "target_url": target_url}
Created(key, target_url) ==
    [NoResult EXCEPT !.status = 200, !.short_url = ShortUrl(key),
                     !.target_url = target_url]

\* db.commit() raises sqlalchemy.exc.IntegrityError, which no handler
\* catches: the response is 500 Internal Server Error.
IntegrityError == [NoResult EXCEPT !.status = 500, !.detail = "IntegrityError"]

\* RedirectResponse(db_url.target_url)
Redirect(target_url) ==
    [NoResult EXCEPT !.status = 307, !.target_url = target_url]

\* raise HTTPException(status_code=404, detail="URL not found")
NotFound == [NoResult EXCEPT !.status = 404, !.detail = "URL not found"]

\* The dictionary get_url_info returns.
Info(db_url) ==
    [NoResult EXCEPT !.status = 200, !.key = db_url.key,
                     !.target_url = db_url.target_url,
                     !.clicks = db_url.clicks,
                     !.is_active = db_url.is_active]

----------------------------------------------------------------------------
\* Requests

Call(op, url_key, target_url, pc, db_url, session, result) ==
    [op |-> op, url_key |-> url_key, target_url |-> target_url, pc |-> pc,
     db_url |-> db_url, session |-> session, result |-> result]

Init ==
    /\ rows = <<>>
    /\ calls = <<>>

CreateAddFlushed(target_url, key) ==
    /\ Len(calls) < MaxCalls
    /\ calls' = Append(calls,
           Call("create", key, target_url, "commit",
                NewRow(0, key, target_url), SessionOpen, NoResult))
    /\ rows' = Append(rows, NewRow(Len(rows) + 1, key, target_url))

\* create_url up to db.add: the key is generated and the new object is
\* pending in the session.
CreateAdd(target_url, key) ==
    /\ Len(calls) < MaxCalls
    /\ calls' = Append(calls,
           Call("create", key, target_url, "commit",
                NewRow(0, key, target_url), SessionOpen, NoResult))
    /\ UNCHANGED rows

CreateCommitUpsert(c) ==
    /\ c \in DOMAIN calls
    /\ calls[c].op = "create"
    /\ calls[c].pc = "commit"
    /\ rows' = IF KeyTaken(calls[c].url_key)
               THEN [i \in DOMAIN rows |->
                       IF rows[i].key = calls[c].url_key
                       THEN NewRow(i, calls[c].url_key, calls[c].target_url)
                       ELSE rows[i]]
               ELSE Append(rows, NewRow(Len(rows) + 1, calls[c].url_key,
                                        calls[c].target_url))
    /\ calls' = [calls EXCEPT ![c].pc = "done",
                              ![c].session = SessionClosed,
                              ![c].result = Created(calls[c].url_key,
                                                    calls[c].target_url)]

CreateCommitTruncating(c) ==
    /\ c \in DOMAIN calls
    /\ calls[c].op = "create"
    /\ calls[c].pc = "commit"
    /\ rows' = <<NewRow(1, calls[c].url_key, calls[c].target_url)>>
    /\ calls' = [calls EXCEPT ![c].pc = "done",
                              ![c].db_url = rows'[1],
                              ![c].session = SessionClosed,
                              ![c].result = Created(calls[c].url_key,
                                                    calls[c].target_url)]

CreateCommitLeaky(c) ==
    /\ c \in DOMAIN calls
    /\ calls[c].op = "create"
    /\ calls[c].pc = "commit"
    /\ IF KeyTaken(calls[c].url_key)
       THEN /\ UNCHANGED rows
            /\ calls' = [calls EXCEPT ![c].pc = "done",
                                      ![c].result = IntegrityError]
       ELSE /\ rows' = Append(rows, NewRow(Len(rows) + 1, calls[c].url_key,
                                           calls[c].target_url))
            /\ calls' = [calls EXCEPT ![c].pc = "done",
                                      ![c].db_url = rows'[Len(rows')],
                                      ![c].session = SessionClosed,
                                      ![c].result =
                                          Created(calls[c].url_key,
                                                  calls[c].target_url)]

\* create_url from db.commit(): the INSERT succeeds and the handler returns,
\* or the unique index rejects it and the commit raises.  The session is
\* closed either way.
CreateCommit(c) ==
    /\ c \in DOMAIN calls
    /\ calls[c].op = "create"
    /\ calls[c].pc = "commit"
    /\ IF KeyTaken(calls[c].url_key)
       THEN /\ UNCHANGED rows
            /\ calls' = [calls EXCEPT ![c].pc = "done",
                                      ![c].session = SessionClosed,
                                      ![c].result = IntegrityError]
       ELSE /\ rows' = Append(rows, NewRow(Len(rows) + 1, calls[c].url_key,
                                           calls[c].target_url))
            /\ calls' = [calls EXCEPT ![c].pc = "done",
                                      ![c].db_url = rows'[Len(rows')],
                                      ![c].session = SessionClosed,
                                      ![c].result =
                                          Created(calls[c].url_key,
                                                  calls[c].target_url)]

\* redirect_to_url up to the test of db_url: the row is loaded into the
\* session, or there is none and the handler raises 404.
RedirectQuery(url_key) ==
    /\ Len(calls) < MaxCalls
    /\ LET db_url == QueryActive(url_key) IN
       IF db_url # NoRow
       THEN calls' = Append(calls,
                Call("redirect", url_key, "", "commit", db_url,
                     SessionOpen, NoResult))
       ELSE calls' = Append(calls,
                Call("redirect", url_key, "", "done", NoRow,
                     SessionClosed, NotFound))
    /\ UNCHANGED rows

RedirectCommitNoWrite(c) ==
    /\ c \in DOMAIN calls
    /\ calls[c].op = "redirect"
    /\ calls[c].pc = "commit"
    /\ LET id == calls[c].db_url.id
           clicks == calls[c].db_url.clicks + 1
       IN /\ rows' = rows
          /\ calls' = [calls EXCEPT ![c].pc = "done",
                                    ![c].db_url = rows'[id],
                                    ![c].session = SessionClosed,
                                    ![c].result =
                                        Redirect(rows'[id].target_url)]

RedirectCommitWholeRow(c) ==
    /\ c \in DOMAIN calls
    /\ calls[c].op = "redirect"
    /\ calls[c].pc = "commit"
    /\ LET id == calls[c].db_url.id
           clicks == calls[c].db_url.clicks + 1
       IN /\ rows' = [rows EXCEPT ![id] = [calls[c].db_url EXCEPT !.clicks = clicks]]
          /\ calls' = [calls EXCEPT ![c].pc = "done",
                                    ![c].db_url = rows'[id],
                                    ![c].session = SessionClosed,
                                    ![c].result =
                                        Redirect(rows'[id].target_url)]

RedirectCommitAllRows(c) ==
    /\ c \in DOMAIN calls
    /\ calls[c].op = "redirect"
    /\ calls[c].pc = "commit"
    /\ LET id == calls[c].db_url.id
           clicks == calls[c].db_url.clicks + 1
       IN /\ rows' = [i \in DOMAIN rows |-> [rows[i] EXCEPT !.clicks = clicks]]
          /\ calls' = [calls EXCEPT ![c].pc = "done",
                                    ![c].db_url = rows'[id],
                                    ![c].session = SessionClosed,
                                    ![c].result =
                                        Redirect(rows'[id].target_url)]

RedirectCommitTwice(c) ==
    /\ c \in DOMAIN calls
    /\ calls[c].op = "redirect"
    /\ calls[c].pc = "commit"
    /\ LET id == calls[c].db_url.id
           clicks == calls[c].db_url.clicks + 2
       IN /\ rows' = [rows EXCEPT ![id].clicks = clicks]
          /\ calls' = [calls EXCEPT ![c].pc = "done",
                                    ![c].db_url = rows'[id],
                                    ![c].session = SessionClosed,
                                    ![c].result =
                                        Redirect(rows'[id].target_url)]

\* redirect_to_url from db_url.clicks += 1: the loaded value plus one is
\* written by UPDATE urls SET clicks = <value> WHERE id = <id>, the
\* transaction commits, and db_url.target_url is loaded again (the commit
\* expired the object) for the response.
RedirectCommit(c) ==
    /\ c \in DOMAIN calls
    /\ calls[c].op = "redirect"
    /\ calls[c].pc = "commit"
    /\ LET id == calls[c].db_url.id
           clicks == calls[c].db_url.clicks + 1
       IN /\ rows' = [rows EXCEPT ![id].clicks = clicks]
          /\ calls' = [calls EXCEPT ![c].pc = "done",
                                    ![c].db_url = rows'[id],
                                    ![c].session = SessionClosed,
                                    ![c].result =
                                        Redirect(rows'[id].target_url)]

\* get_url_info: one query, no write.
GetUrlInfo(url_key) ==
    /\ Len(calls) < MaxCalls
    /\ LET db_url == QueryByKey(url_key) IN
       calls' = Append(calls,
           Call("info", url_key, "", "done", db_url, SessionClosed,
                IF db_url # NoRow THEN Info(db_url) ELSE NotFound))
    /\ UNCHANGED rows

\* The administrative deactivation (not a handler of the application):
\* UPDATE urls SET is_active = false WHERE id = <id>.
Deactivate(id) ==
    /\ id \in DOMAIN rows
    /\ rows[id].is_active
    /\ rows' = [rows EXCEPT ![id].is_active = FALSE]
    /\ UNCHANGED calls

\* Keys and target URLs are opaque to the program, which only stores them
\* and compares them for equality, so behaviours that differ by a renaming
\* of them are the same behaviour.  One of each class is kept: the values
\* are named in the order in which requests first carry them.
KeyNames == <<"k1", "k2">>

UrlNames == <<"u1", "u2">>

Named(names, used) ==
    {names[i] : i \in {j \in DOMAIN names : j <= Cardinality(used) + 1}}

\* The keys generated or requested so far, and the keys the next request
\* can carry.
UsedKeys == {calls[c].url_key : c \in DOMAIN calls}

NextKeys == Named(KeyNames, UsedKeys)

\* The same for the target URLs of the create requests.
UsedUrls ==
    {calls[c].target_url : c \in {d \in DOMAIN calls : calls[d].op = "create"}}

NextUrls == Named(UrlNames, UsedUrls)

Next ==
    \/ \E target_url \in NextUrls, key \in NextKeys :
          CreateAdd(target_url, key)
    \/ \E c \in DOMAIN calls : CreateCommit(c)
    \/ \E url_key \in NextKeys : RedirectQuery(url_key)
    \/ \E c \in DOMAIN calls : RedirectCommit(c)
    \/ \E url_key \in NextKeys : GetUrlInfo(url_key)
    \/ \E id \in DOMAIN rows : Deactivate(id)

Spec == Init /\ [][Next]_vars

----------------------------------------------------------------------------
\* Vocabulary of the properties

Done(c) == calls[c].pc = "done"

\* The key a client takes from a short URL: its last path segment.
KeyOf(short_url) == short_url[Len(short_url)]

Quiescent == \A c \in DOMAIN calls : Done(c)

\* The redirect_to_url calls on a key that have answered with the redirect.
Redirected(key) ==
    {c \in DOMAIN calls : /\ calls[c].op = "redirect"
                          /\ calls[c].url_key = key
                          /\ Done(c)
                          /\ calls[c].result.status = 307}

\* A step in which a request arrives: the request is the last of calls'.
Arrives == Len(calls') = Len(calls) + 1

Arrived == calls'[Len(calls')]

Inactive(key) == \E i \in DOMAIN rows : rows[i].key = key /\ ~rows[i].is_active

RowOf(key) == rows[CHOOSE i \in DOMAIN rows : rows[i].key = key]

----------------------------------------------------------------------------
\* C1: counter correctness under concurrency.  Once every call has
\* finished, the clicks of each mapping (0 at creation) equals the number
\* of redirect_to_url calls on its key that succeeded: no increment is lost.
CounterCorrectness ==
    Quiescent =>
        \A i \in DOMAIN rows :
            rows[i].clicks = Cardinality(Redirected(rows[i].key))

\* C2: key uniqueness.  No two rows of the table have the same key, active
\* or not, whatever creates ran and however they interleaved or collided.
KeyUniqueness ==
    \A i, j \in DOMAIN rows : rows[i].key = rows[j].key => i = j

\* A create has collided with the key of a deactivated mapping while
\* another mapping was stored as well.
KeyUniquenessWitness ==
    /\ Len(rows) >= 2
    /\ \E c \in DOMAIN calls :
          /\ calls[c].op = "create"
          /\ Done(c)
          /\ calls[c].result.status = 500
          /\ Inactive(calls[c].url_key)

\* C3: collision retry.  A create whose generated key is taken, while the
\* generator can still return an unused key, succeeds: no finished create
\* has failed while an unused key remains.
CollisionRetry ==
    \A c \in DOMAIN calls :
        (/\ calls[c].op = "create"
         /\ Done(c)
         /\ \E key \in Keys : ~KeyTaken(key))
        => /\ calls[c].result.status = 200
           /\ KeyTaken(KeyOf(calls[c].result.short_url))

\* C4: exhaustion.  A create that commits when every key the generator can
\* return is taken fails with KeyGenerationExhausted, not with a generic
\* storage error.
Exhaustion ==
    [][\A c \in DOMAIN calls :
          (/\ calls[c].op = "create"
           /\ ~Done(c)
           /\ calls'[c].pc = "done"
           /\ \A key \in Keys : KeyTaken(key))
          => /\ calls'[c].result.status # 200
             /\ calls'[c].result.detail = "KeyGenerationExhausted"]_vars

\* C5: deactivation visibility.  A redirect_to_url call that arrives when
\* the mapping of its key is inactive answers NotFound and leaves the table
\* (so the mapping's clicks) as it was; a get_url_info call that arrives
\* then returns the record, with its clicks and its false flag.
DeactivationVisibility ==
    [][(Arrives /\ Inactive(Arrived.url_key)) =>
          /\ Arrived.op = "redirect" =>
                /\ Arrived.pc = "done"
                /\ Arrived.result = NotFound
                /\ rows' = rows
          /\ Arrived.op = "info" =>
                /\ Arrived.result = Info(RowOf(Arrived.url_key))
                /\ Arrived.result.is_active = FALSE
                /\ rows' = rows]_vars

\* A mapping was clicked and then deactivated; after that, get_url_info
\* returned the record and a later redirect_to_url answered NotFound.
DeactivationVisibilityWitness ==
    \E i \in DOMAIN rows, c, d \in DOMAIN calls :
        /\ ~rows[i].is_active
        /\ rows[i].clicks >= 1
        /\ c < d
        /\ calls[c].op = "info"
        /\ calls[c].result.status = 200
        /\ calls[c].result.key = rows[i].key
        /\ calls[c].result.is_active = FALSE
        /\ calls[c].result.clicks = rows[i].clicks
        /\ calls[d].op = "redirect"
        /\ calls[d].url_key = rows[i].key
        /\ calls[d].result = NotFound

\* C6: clicks is monotonically non-decreasing.  No step lowers the clicks
\* of a row, and clicks is never negative.
ClicksMonotonic ==
    [][\A i \in DOMAIN rows :
          /\ rows'[i].clicks >= rows[i].clicks
          /\ rows'[i].clicks >= 0]_vars

\* C7: clicks is never incremented for an inactive mapping.  No step raises
\* the clicks of a row whose is_active is false.
NoClickWhileInactive ==
    [][\A i \in DOMAIN rows :
          ~rows[i].is_active => ~(rows'[i].clicks > rows[i].clicks)]_vars

\* C8: round trip.  A redirect_to_url call that succeeded on the key of the
\* short URL a create returned redirects to the target_url given to that
\* create.
RoundTrip ==
    \A c, d \in DOMAIN calls :
        (/\ calls[c].op = "create"
         /\ Done(c)
         /\ calls[c].result.status = 200
         /\ calls[d].op = "redirect"
         /\ Done(d)
         /\ calls[d].result.status = 307
         /\ calls[d].url_key = KeyOf(calls[c].result.short_url))
        => calls[d].result.target_url = calls[c].target_url

\* Two mappings with different targets exist, and a redirect that arrived
\* after them was answered with the target of the second.
RoundTripWitness ==
    \E c, d, e \in DOMAIN calls :
        /\ c < d /\ d < e
        /\ calls[c].op = "create" /\ calls[c].result.status = 200
        /\ calls[d].op = "create" /\ calls[d].result.status = 200
        /\ calls[c].target_url # calls[d].target_url
        /\ calls[e].op = "redirect"
        /\ calls[e].result.status = 307
        /\ calls[e].url_key = KeyOf(calls[d].result.short_url)
        /\ calls[e].result.target_url = calls[d].target_url

\* C9: unknown key.  A redirect_to_url or get_url_info call with a key no
\* row has answers NotFound at once and leaves the table as it was.
UnknownKey ==
    [][(/\ Arrives
        /\ Arrived.op \in {"redirect", "info"}
        /\ ~KeyTaken(Arrived.url_key))
       => /\ Arrived.pc = "done"
          /\ Arrived.result = NotFound
          /\ rows' = rows]_vars

\* With an active, clicked mapping stored, both handlers have answered
\* NotFound for a key that no row has.
UnknownKeyWitness ==
    \E key \in Keys, c, d \in DOMAIN calls :
        /\ ~KeyTaken(key)
        /\ \E i \in DOMAIN rows : rows[i].is_active /\ rows[i].clicks >= 1
        /\ calls[c].op = "redirect" /\ calls[c].url_key = key
        /\ calls[c].result = NotFound
        /\ calls[d].op = "info" /\ calls[d].url_key = key
        /\ calls[d].result = NotFound

\* C10: get_url_info is a pure read.  It changes no row; it returns the
\* record of the key whenever a row has the key, active or not, and
\* NotFound only when none has.
InspectPureRead ==
    [][(Arrives /\ Arrived.op = "info") =>
          /\ rows' = rows
          /\ Arrived.pc = "done"
          /\ IF KeyTaken(Arrived.url_key)
             THEN Arrived.result = Info(RowOf(Arrived.url_key))
             ELSE Arrived.result = NotFound]_vars

\* get_url_info has returned the record of a clicked, deactivated mapping,
\* and NotFound for another key.
InspectPureReadWitness ==
    \E c, d \in DOMAIN calls :
        /\ calls[c].op = "info"
        /\ calls[c].result.status = 200
        /\ calls[c].result.is_active = FALSE
        /\ calls[c].result.clicks >= 1
        /\ calls[c].result = Info(RowOf(calls[c].url_key))
        /\ calls[d].op = "info"
        /\ calls[d].result = NotFound

----------------------------------------------------------------------------
\* Further vocabulary

\* Call c ends in this step.
Ends(c) == ~Done(c) /\ calls'[c].pc = "done"

\* The create_url calls that have returned a short URL.
CreatedCalls ==
    {c \in DOMAIN calls : /\ calls[c].op = "create"
                          /\ Done(c)
                          /\ calls[c].result.status = 200}

\* A row with every column set.
Complete(row) ==
    /\ row.id \in 1..Len(rows)
    /\ row.key \in Keys
    /\ row.target_url \in Urls
    /\ row.is_active \in BOOLEAN
    /\ row.clicks \in Nat

\* The redirect_to_url calls on a key, finished or not.
RedirectCalls(key) ==
    {c \in DOMAIN calls : calls[c].op = "redirect" /\ calls[c].url_key = key}

----------------------------------------------------------------------------
\* C11: effect of create.  The step in which a create_url call returns its
\* short URL appends exactly one row, which has the key of the short URL, the
\* target_url of the request, is_active true and clicks 0, and leaves every
\* row that existed unchanged.
CreateEffect ==
    [][\A c \in DOMAIN calls :
          (/\ calls[c].op = "create"
           /\ Ends(c)
           /\ calls'[c].result.status = 200)
          => /\ Len(rows') = Len(rows) + 1
             /\ rows'[Len(rows')].key = KeyOf(calls'[c].result.short_url)
             /\ rows'[Len(rows')].target_url = calls[c].target_url
             /\ rows'[Len(rows')].is_active = TRUE
             /\ rows'[Len(rows')].clicks = 0
             /\ \A i \in DOMAIN rows : rows'[i] = rows[i]]_vars

\* A second mapping was created after the first had been clicked and
\* deactivated.
CreateEffectWitness ==
    /\ Len(rows) = 2
    /\ rows[1].clicks >= 1
    /\ ~rows[1].is_active
    /\ rows[2].is_active
    /\ rows[2].clicks = 0
    /\ \E c \in CreatedCalls : calls[c].db_url.id = 2

\* C12: create atomicity.  Every row of the table is complete and is the
\* row of exactly one create_url call that has committed; a create that is
\* in flight or has failed has no row; and what a redirect_to_url or
\* get_url_info call read is nothing or a complete row with its key.
CreateAtomicity ==
    /\ \A i \in DOMAIN rows :
          /\ Complete(rows[i])
          /\ rows[i].id = i
          /\ \E c \in CreatedCalls :
                /\ calls[c].db_url.id = i
                /\ calls[c].url_key = rows[i].key
                /\ calls[c].target_url = rows[i].target_url
    /\ Cardinality(CreatedCalls) = Len(rows)
    /\ \A c \in DOMAIN calls :
          calls[c].op \in {"redirect", "info"} =>
              \/ calls[c].db_url = NoRow
              \/ /\ Complete(calls[c].db_url)
                 /\ calls[c].db_url.key = calls[c].url_key

\* While a create was in flight with an unused key, get_url_info for that
\* key answered NotFound; another create has failed at its commit.
CreateAtomicityWitness ==
    \E b, d, f \in DOMAIN calls :
        /\ calls[b].op = "create"
        /\ calls[b].pc = "commit"
        /\ ~KeyTaken(calls[b].url_key)
        /\ b < d
        /\ calls[d].op = "info"
        /\ calls[d].url_key = calls[b].url_key
        /\ calls[d].result = NotFound
        /\ calls[f].op = "create"
        /\ calls[f].result.status = 500
        /\ Len(rows) = 1

\* C13: outcome of a single redirect_to_url call.  A call that arrives when
\* no row has its key, or the row is inactive, answers NotFound and writes
\* nothing; a call that found the row and commits with the row as it read
\* it raises that row's clicks by exactly 1, changes nothing else of it, and
\* redirects to its target_url.
ResolveOutcome ==
    [][/\ (Arrives /\ Arrived.op = "redirect") =>
             /\ rows' = rows
             /\ IF ~KeyTaken(Arrived.url_key) \/ Inactive(Arrived.url_key)
                THEN Arrived.pc = "done" /\ Arrived.result = NotFound
                ELSE Arrived.pc = "commit"
       /\ \A c \in DOMAIN calls :
             (/\ calls[c].op = "redirect"
              /\ Ends(c)
              /\ calls[c].db_url = rows[calls[c].db_url.id])
             => LET id == calls[c].db_url.id IN
                /\ rows'[id] = [rows[id] EXCEPT !.clicks = @ + 1]
                /\ calls'[c].result = Redirect(rows[id].target_url)]_vars

\* One redirect on a key has succeeded and the clicks of its mapping is 1;
\* another redirect was answered NotFound for a deactivated mapping.
ResolveOutcomeWitness ==
    \E c, d \in DOMAIN calls :
        /\ calls[c].op = "redirect"
        /\ calls[c].result.status = 307
        /\ RedirectCalls(calls[c].url_key) = {c}
        /\ RowOf(calls[c].url_key).clicks = 1
        /\ calls[d].op = "redirect"
        /\ calls[d].result = NotFound
        /\ Inactive(calls[d].url_key)

\* C14: target_url and key are immutable.  No step changes the key or the
\* target_url of a row.
TargetAndKeyImmutable ==
    [][\A i \in DOMAIN rows :
          /\ rows'[i].key = rows[i].key
          /\ rows'[i].target_url = rows[i].target_url]_vars

\* A mapping has been clicked and deactivated, and a create with its key
\* and another target_url has ended; it still has the target it was
\* created with.
TargetAndKeyImmutableWitness ==
    \E i \in DOMAIN rows, c, d \in DOMAIN calls :
        /\ c \in CreatedCalls
        /\ calls[c].db_url.id = i
        /\ rows[i].clicks >= 1
        /\ ~rows[i].is_active
        /\ calls[d].op = "create"
        /\ Done(d)
        /\ d # c
        /\ calls[d].url_key = rows[i].key
        /\ calls[d].target_url # rows[i].target_url
        /\ rows[i].target_url = calls[c].target_url

\* C15: Inactive is terminal.  No step sets is_active of a row back to true
\* once it is false.
InactiveTerminal ==
    [][\A i \in DOMAIN rows :
          ~rows[i].is_active => ~rows'[i].is_active]_vars

\* A redirect that had read the mapping as active committed after the
\* deactivation: get_url_info saw the mapping inactive with fewer clicks
\* than it has now, and it is still inactive.
InactiveTerminalWitness ==
    \E c \in DOMAIN calls :
        /\ calls[c].op = "info"
        /\ calls[c].result.status = 200
        /\ calls[c].result.is_active = FALSE
        /\ calls[c].result.clicks < RowOf(calls[c].url_key).clicks
        /\ ~RowOf(calls[c].url_key).is_active

\* C16: mappings are never deleted.  Every key some row has before a step,
\* some row has after it.
NeverDeleted ==
    [][\A i \in DOMAIN rows :
          \E j \in DOMAIN rows' : rows'[j].key = rows[i].key]_vars

\* Two mappings are stored and a failed create, a redirect and a
\* get_url_info have run since.
NeverDeletedWitness ==
    /\ Len(rows) = 2
    /\ Quiescent
    /\ \E c \in DOMAIN calls :
          calls[c].op = "create" /\ calls[c].result.status = 500
    /\ \E c \in DOMAIN calls :
          calls[c].op \in {"redirect", "info"} /\ c > 2

\* C17: independence of different keys.  The commit of a redirect_to_url
\* call changes nothing but the clicks of the row it read, which has its
\* key; and after every step, a mapping on whose key at most one redirect
\* was issued has as many clicks as redirects on its key have succeeded,
\* whatever ran on other keys in between.
KeyIndependence ==
    [][/\ \A c \in DOMAIN calls :
             (calls[c].op = "redirect" /\ Ends(c))
             => /\ rows[calls[c].db_url.id].key = calls[c].url_key
                /\ \A i \in DOMAIN rows :
                      /\ i # calls[c].db_url.id => rows'[i] = rows[i]
                      /\ [rows'[i] EXCEPT !.clicks = 0] =
                             [rows[i] EXCEPT !.clicks = 0]
       /\ \A i \in DOMAIN rows' :
             LET on == {c \in DOMAIN calls' :
                           /\ calls'[c].op = "redirect"
                           /\ calls'[c].url_key = rows'[i].key}
             IN Cardinality(on) <= 1 =>
                    rows'[i].clicks =
                        Cardinality({c \in on : calls'[c].result.status = 307})
      ]_vars

\* Two redirects on different keys overlapped: the one that arrived later
\* has committed and is counted while the earlier is still before its
\* commit.
KeyIndependenceWitness ==
    \E c, d \in DOMAIN calls :
        /\ d < c
        /\ calls[c].op = "redirect"
        /\ calls[d].op = "redirect"
        /\ calls[c].url_key # calls[d].url_key
        /\ calls[c].result.status = 307
        /\ calls[d].pc = "commit"
        /\ RowOf(calls[c].url_key).clicks = 1
        /\ RowOf(calls[d].url_key).clicks = 0

\* C18: session release.  The session of a call is open exactly while the
\* call runs: it is closed once the call has ended, however it ended, so
\* that no session is open when every call has finished.
SessionRelease ==
    \A c \in DOMAIN calls :
        /\ Done(c) => calls[c].session = SessionClosed
        /\ ~Done(c) => calls[c].session = SessionOpen

\* All calls have finished, among them a create whose commit raised, a
\* redirect answered NotFound and a redirect that succeeded.
SessionReleaseWitness ==
    /\ Quiescent
    /\ \E c \in DOMAIN calls :
          calls[c].op = "create" /\ calls[c].result.status = 500
    /\ \E c \in DOMAIN calls :
          calls[c].op = "redirect" /\ calls[c].result = NotFound
    /\ \E c \in DOMAIN calls :
          calls[c].op = "redirect" /\ calls[c].result.status = 307

\* C19: a colliding create does not overwrite.  The step in which a
\* create_url call commits a key that some row has leaves the table as it
\* was: the row keeps its target_url, is_active and clicks, and no row is
\* added.
CollisionKeepsRow ==
    [][\A c \in DOMAIN calls :
          (/\ calls[c].op = "create"
           /\ Ends(c)
           /\ KeyTaken(calls[c].url_key))
          => rows' = rows]_vars

\* A create with another target_url has collided with a clicked mapping,
\* which is as it was.
CollisionKeepsRowWitness ==
    \E c \in DOMAIN calls, i \in DOMAIN rows :
        /\ calls[c].op = "create"
        /\ calls[c].result.status = 500
        /\ rows[i].key = calls[c].url_key
        /\ rows[i].target_url # calls[c].target_url
        /\ rows[i].clicks >= 1
        /\ rows[i].is_active
        /\ Len(rows) = 1

\* C20: no over-counting.  The clicks of a mapping never exceeds the number
\* of redirect_to_url calls on its key that found it active and have
\* committed.
NoOverCount ==
    \A i \in DOMAIN rows :
        rows[i].clicks <= Cardinality(Redirected(rows[i].key))

\* Three redirects on a key have committed and its clicks is 2.
NoOverCountWitness ==
    \E i \in DOMAIN rows :
        /\ rows[i].clicks = 2
        /\ Cardinality(Redirected(rows[i].key)) = 3

====
